---- MODULE Spec2Model ----
(***************************************************************************)
(* A model of the streaming lexer of src/lang/lexer.rs.                    *)
(*                                                                         *)
(* The lexer owns a peekable character source and two location points.     *)
(* One call of Lexer::next is modelled step by step: every iteration of    *)
(* one of its loops, and every character it eats, is one step of the       *)
(* state machine, so that termination, the location bookkeeping and the    *)
(* recursion on comments can be observed.  Each step is a pure operator    *)
(* on a record of the whole state; the actions apply these operators to    *)
(* the variables, and Lex applies them to a fresh lexer until the first    *)
(* end-of-input.                                                           *)
(*                                                                         *)
(* Characters are one-character strings; an input is a sequence of them.   *)
(* A decoded string value is a sequence of Unicode code points.            *)
(***************************************************************************)
EXTENDS Integers, Sequences, FiniteSets, TLC

VARIABLES
    input,      \* the whole character sequence handed to Lexer::new
    src,        \* Lexer.src: the characters not yet consumed
    location,   \* Lexer.location: position of the next character
    current,    \* Lexer.current: position of the character last consumed
    frame,      \* the running call of next: its place and its locals
    results     \* what the calls of next have returned so far, in order

vars == <<input, src, location, current, frame, results>>

---------------------------------------------------------------------------
(* Characters *)

None == "None"

Whitespace == {" ", "\t", "\n", "\f", "\r"}

Digits == {"0", "1", "2", "3", "4", "5", "6", "7", "8", "9"}

Upper == {"A", "B", "C", "D", "E", "F", "G", "H", "I", "J", "K", "L", "M",
          "N", "O", "P", "Q", "R", "S", "T", "U", "V", "W", "X", "Y", "Z"}

Lower == {"a", "b", "c", "d", "e", "f", "g", "h", "i", "j", "k", "l", "m",
          "n", "o", "p", "q", "r", "s", "t", "u", "v", "w", "x", "y", "z"}

SymbolStart == Upper \cup Lower \cup {"_"}

SymbolChars == Digits \cup Upper \cup Lower \cup {"_"}

NumberStart == {"-", "+"} \cup Digits

\* A number run that also takes the sign of an exponent.
NumberCharsWithSign == Digits \cup {"_", ".", "E", "e", "+", "-"}

NumberChars == Digits \cup {"_", ".", "E", "e"}

Quotes == {"\"", "'"}

Closers == {")", "]", "}"}

Printable ==
    <<" ", "!", "\"", "#", "$", "%", "&", "'", "(", ")", "*", "+", ",", "-",
      ".", "/", "0", "1", "2", "3", "4", "5", "6", "7", "8", "9", ":", ";",
      "<", "=", ">", "?", "@", "A", "B", "C", "D", "E", "F", "G", "H", "I",
      "J", "K", "L", "M", "N", "O", "P", "Q", "R", "S", "T", "U", "V", "W",
      "X", "Y", "Z", "[", "\\", "]", "^", "_", "<grave>", "a", "b", "c", "d", "e",
      "f", "g", "h", "i", "j", "k", "l", "m", "n", "o", "p", "q", "r", "s",
      "t", "u", "v", "w", "x", "y", "z", "{", "|", "}", "~">>

\* The code point of a character (ASCII only: the model's inputs are ASCII).
Ord(c) ==
    CASE c = "\t" -> 9
      [] c = "\n" -> 10
      [] c = "\f" -> 12
      [] c = "\r" -> 13
      [] OTHER -> 31 + (CHOOSE i \in 1..Len(Printable) : Printable[i] = c)

---------------------------------------------------------------------------
(* Locations *)

LocationPoint(i, l, c) == [index |-> i, line |-> l, column |-> c]

DefaultPoint == LocationPoint(0, 0, 0)

LocationArea(s, e) == [start |-> s, end |-> e]

\* LocationArea::from(LocationPoint), used as `point.into()`: the one-point span.
PointArea(p) == LocationArea(p, p)

\* Advance without the newline case: the line and column go wrong.
AdvanceNoNewline(loc, c) ==
    LocationPoint(loc.index + 1, loc.line, loc.column + 1)

\* The running location after consuming character c at location loc.
Advance(loc, c) ==
    IF c = "\n"
    THEN LocationPoint(loc.index + 1, loc.line + 1, 0)
    ELSE LocationPoint(loc.index + 1, loc.line, loc.column + 1)

---------------------------------------------------------------------------
(* Formatting and parsing done by the standard library *)

\* format!("{:?}", ch) of a char: quoted, with Rust's escapes.
DebugChar(c) ==
    CASE c = "\t" -> <<"'", "\\", "t", "'">>
      [] c = "\n" -> <<"'", "\\", "n", "'">>
      [] c = "\r" -> <<"'", "\\", "r", "'">>
      [] c = "\f" -> <<"'", "\\", "u", "{", "c", "}", "'">>
      [] c = "\\" -> <<"'", "\\", "\\", "'">>
      [] c = "'" -> <<"'", "\\", "'", "'">>
      [] OTHER -> <<"'", c, "'">>

RECURSIVE EscapeStr(_)
EscapeStr(str) ==
    IF str = <<>> THEN <<>>
    ELSE LET c == Head(str)
             e == CASE c = "\t" -> <<"\\", "t">>
                    [] c = "\n" -> <<"\\", "n">>
                    [] c = "\r" -> <<"\\", "r">>
                    [] c = "\f" -> <<"\\", "u", "{", "c", "}">>
                    [] c = "\\" -> <<"\\", "\\">>
                    [] c = "\"" -> <<"\\", "\"">>
                    [] OTHER -> <<c>>
         IN e \o EscapeStr(Tail(str))

\* format!("{:?}", hex) of a String.
DebugStr(str) == <<"\"">> \o EscapeStr(str) \o <<"\"">>

HexDigits == Digits \cup {"a", "b", "c", "d", "e", "f"}
                    \cup {"A", "B", "C", "D", "E", "F"}

HexVal(c) ==
    CASE c \in Digits -> Ord(c) - 48
      [] c \in {"a", "b", "c", "d", "e", "f"} -> Ord(c) - 87
      [] c \in {"A", "B", "C", "D", "E", "F"} -> Ord(c) - 55

\* The digits from_str_radix reads: it first drops one leading '+'
\* (for an unsigned type a leading '-' is an invalid digit).
RadixDigits(str) ==
    IF Len(str) > 1 /\ Head(str) = "+" THEN Tail(str) ELSE str

\* uN::from_str_radix(&hex, 16) is Ok: u8, u16 and u32 cannot overflow on the
\* 2, 4 and 8 characters they are given.
RadixOk(str) ==
    /\ str # <<>>
    /\ \A i \in 1..Len(RadixDigits(str)) : RadixDigits(str)[i] \in HexDigits

\* First code point that is no char: values at or above it are all invalid,
\* so the value is kept exact below it and clamped to it above.
CharLimit == 1114112

RECURSIVE RadixFold(_, _)
RadixFold(digits, acc) ==
    IF digits = <<>> THEN acc
    ELSE LET v == acc * 16 + HexVal(Head(digits))
         IN RadixFold(Tail(digits), IF v > CharLimit THEN CharLimit ELSE v)

\* The value from_str_radix returns, clamped to CharLimit.
RadixValue(str) == RadixFold(RadixDigits(str), 0)

\* A validity test that knows the upper limit of the code points but not the
\* surrogate range.
IsCharNoSurrogates(v) == v < CharLimit

\* char::from_u32(v) is Some: v is a Unicode scalar value.
IsChar(v) == v < CharLimit /\ ~(55296 <= v /\ v <= 57343)

\* The decimal digits of the value, least significant first, after one more
\* hex digit d: 16 * dec + carry.
RECURSIVE MulAdd16(_, _)
MulAdd16(dec, carry) ==
    IF dec = <<>>
    THEN IF carry = 0 THEN <<>> ELSE <<carry % 10>> \o MulAdd16(<<>>, carry \div 10)
    ELSE LET v == Head(dec) * 16 + carry
         IN <<v % 10>> \o MulAdd16(Tail(dec), v \div 10)

RECURSIVE RadixDecimal(_, _)
RadixDecimal(digits, dec) ==
    IF digits = <<>> THEN dec
    ELSE RadixDecimal(Tail(digits), MulAdd16(dec, HexVal(Head(digits))))

\* format!("{}", word) of the unsigned value of the hex digits.
DisplayRadix(str) ==
    LET dec == RadixDecimal(RadixDigits(str), <<>>)
    IN IF dec = <<>> THEN <<"0">>
       ELSE [i \in 1..Len(dec) |-> Printable[17 + dec[Len(dec) + 1 - i]]]

\* How many leading characters of str are decimal digits.
RECURSIVE DigitRun(_)
DigitRun(str) ==
    IF str # <<>> /\ Head(str) \in Digits THEN 1 + DigitRun(Tail(str)) ELSE 0

Drop(str, n) == SubSeq(str, n + 1, Len(str))

RECURSIVE DigitsValue(_, _)
DigitsValue(str, acc) ==
    IF str = <<>> THEN acc
    ELSE DigitsValue(Tail(str), acc * 10 + (Ord(Head(str)) - 48))

\* An optional sign, and what follows it.
SplitSign(str) ==
    IF str # <<>> /\ Head(str) \in {"+", "-"}
    THEN [negative |-> Head(str) = "-", rest |-> Tail(str)]
    ELSE [negative |-> FALSE, rest |-> str]

\* digits ['.' digits], and what follows it.
SplitMantissa(str) ==
    LET ni == DigitRun(str)
        dot == Len(str) > ni /\ str[ni + 1] = "."
        nf == IF dot THEN DigitRun(Drop(str, ni + 1)) ELSE 0
    IN [int |-> SubSeq(str, 1, ni),
        fraction |-> SubSeq(str, ni + 2, ni + 1 + nf),
        rest |-> Drop(str, IF dot THEN ni + 1 + nf ELSE ni)]

\* [('e'|'E') [sign] digits], and what follows it.
SplitExponent(str) ==
    IF str # <<>> /\ Head(str) \in {"e", "E"}
    THEN LET sg == SplitSign(Tail(str))
             ne == DigitRun(sg.rest)
         IN [present |-> TRUE, negative |-> sg.negative,
             digits |-> SubSeq(sg.rest, 1, ne), rest |-> Drop(sg.rest, ne)]
    ELSE [present |-> FALSE, negative |-> FALSE, digits |-> <<>>,
          rest |-> str]

\* The parts of a decimal float literal as f32::from_str reads it:
\* [sign] digits ['.' digits] [('e'|'E') [sign] digits], with at least one
\* digit before the exponent and at least one in it.  ("inf", "infinity" and
\* "nan" need letters the number scanner never collects.)
FloatParts(str) ==
    LET sg == SplitSign(str)
        mt == SplitMantissa(sg.rest)
        ex == SplitExponent(mt.rest)
    IN [ok |-> /\ Len(mt.int) + Len(mt.fraction) >= 1
               /\ (ex.present => ex.digits # <<>>)
               /\ ex.rest = <<>>,
        negative |-> sg.negative,
        digits |-> mt.int \o mt.fraction,
        fraction |-> Len(mt.fraction),
        exponent |-> IF ex.negative THEN 0 - DigitsValue(ex.digits, 0)
                     ELSE DigitsValue(ex.digits, 0)]

\* f32::from_str(&number).is_ok()
FloatOk(str) == FloatParts(str).ok

RECURSIVE Pow10(_)
Pow10(n) == IF n = 0 THEN 1 ELSE 10 * Pow10(n - 1)

RECURSIVE DecimalLen(_)
DecimalLen(n) == IF n < 10 THEN 1 ELSE 1 + DecimalLen(n \div 10)

RECURSIVE Normal(_, _)
Normal(m, e) == IF m % 10 = 0 THEN Normal(m \div 10, e + 1) ELSE <<m, e>>

\* The f32 that f32::from_str returns, as <<sign, m, e>> for sign * m * 10^e
\* with m not divisible by 10; zero is <<0, 0, 0>> (0.0 == -0.0) and an
\* overflow to infinity is <<sign, 0, 1>>.  Literals of more significant
\* digits than an f32 holds apart are beyond the model's input lengths.
FloatValue(str) ==
    LET p == FloatParts(str)
        m == DigitsValue(p.digits, 0)
        n == Normal(m, p.exponent - p.fraction)
        sign == IF p.negative THEN 0 - 1 ELSE 1
        magnitude == DecimalLen(n[1]) + n[2]
    IN IF m = 0 THEN <<0, 0, 0>>
       ELSE IF magnitude > 39
               \/ (magnitude = 39 /\
                   n[1] * Pow10(9 - DecimalLen(n[1])) >= 340282357)
            THEN <<sign, 0, 1>>
            ELSE <<sign, n[1], n[2]>>

---------------------------------------------------------------------------
(* What a call of next returns *)

\* Some(Ok(Token { kind, location })); kind is the variant, value its payload.
Token(kind, value, area) ==
    [tag |-> "token", kind |-> kind, value |-> value,
     location |-> area, message |-> <<>>]

\* Some(Err(Error { kind: SyntaxError, location: Some(area), message })).
\* The message is the sequence of its pieces, in order.
Error(area, message) ==
    [tag |-> "error", kind |-> "SyntaxError", value |-> <<>>,
     location |-> area, message |-> message]

\* None: the iterator is exhausted.
EndOfInput ==
    [tag |-> "eof", kind |-> "None", value |-> <<>>,
     location |-> PointArea(DefaultPoint), message |-> <<>>]

---------------------------------------------------------------------------
(* The state: the Lexer's fields, the running call, the results so far *)

\* The locals of a call of next that is not running.
IdleFrame ==
    [pc |-> "idle", depth |-> 0, ch |-> None, start |-> DefaultPoint,
     kind |-> "None", value |-> <<>>, text |-> <<>>, string |-> <<>>,
     before |-> DefaultPoint, expect_end |-> FALSE, esc |-> None,
     hex |-> <<>>]

\* Lexer::new(src): both location points are LocationPoint::default().
New(chars) ==
    [src |-> chars, location |-> DefaultPoint, current |-> DefaultPoint,
     frame |-> IdleFrame, results |-> <<>>]

\* self.src.peek()
Peek(s) == IF s.src = <<>> THEN None ELSE Head(s.src)

\* eat with `current` taken after the increment instead of before it.
EatCurrentAfter(s) ==
    IF s.src = <<>>
    THEN s
    ELSE [s EXCEPT !.src = Tail(@),
                   !.current = Advance(s.location, Head(s.src)),
                   !.location = Advance(s.location, Head(s.src))]

\* eat that counts a character even when the source is exhausted.
EatCountsAtEnd(s) ==
    IF s.src = <<>>
    THEN [s EXCEPT !.current = s.location,
                   !.location = Advance(s.location, None)]
    ELSE [s EXCEPT !.src = Tail(@),
                   !.current = s.location,
                   !.location = Advance(s.location, Head(s.src))]

\* self.eat(): nothing changes when the source is exhausted (the `?`);
\* the character eaten is Peek(s), None when there is none.
Eat(s) ==
    IF s.src = <<>>
    THEN s
    ELSE [s EXCEPT !.src = Tail(@),
                   !.current = s.location,
                   !.location = Advance(s.location, Head(s.src))]

\* The call returns r: its locals are gone.
Return(s, r) ==
    [s EXCEPT !.frame = IdleFrame, !.results = Append(@, r)]

\* `return self.next()`: a nested call, with locals of its own, whose result
\* is the result of this one.
Recurse(s) ==
    [s EXCEPT !.frame = [IdleFrame EXCEPT !.pc = "skip",
                                          !.depth = s.frame.depth + 1]]

\* The scanner has its token kind: what is left is the delimiter check.
Scanned(s, kind, value) ==
    [s EXCEPT !.frame.pc = "validate", !.frame.kind = kind,
              !.frame.value = value]

---------------------------------------------------------------------------
(* The steps of a call of next *)

\* The caller asks for the next token.
StepCall(s) ==
    [s EXCEPT !.frame = [IdleFrame EXCEPT !.pc = "skip", !.depth = 1]]

\* One iteration of the whitespace loop that eats.
StepSkip(s) == Eat(s)

\* Symbol::new(symbol).unwrap(): the collaborator accepts every run of the
\* identifier alphabet and keeps its text.
SymbolNew(symbol) == symbol

\* The whitespace loop is left; `let ch = self.eat()?`, `start`, and the
\* match on ch up to the first iteration of the scanner it selects.
StepDispatch(s) ==
    IF Peek(s) = None THEN Return(Eat(s), EndOfInput)
    ELSE
      LET c == Peek(s)
          t == Eat(s)
          u == [t EXCEPT !.frame.ch = c, !.frame.start = t.current]
      IN CASE c = "(" -> Scanned(u, "LeftParen", <<>>)
           [] c = ")" -> Scanned(u, "RightParen", <<>>)
           [] c = "[" -> Scanned(u, "LeftBracket", <<>>)
           [] c = "]" -> Scanned(u, "RightBracket", <<>>)
           [] c = "{" -> Scanned(u, "LeftBrace", <<>>)
           [] c = "}" -> Scanned(u, "RightBrace", <<>>)
           [] c = "." -> Scanned(u, "Dot", <<>>)
           [] c \in SymbolStart ->
                [u EXCEPT !.frame.pc = "symbol", !.frame.text = <<c>>]
           [] c \in NumberStart ->
                [u EXCEPT !.frame.pc = "number", !.frame.text = <<c>>]
           [] c \in Quotes ->
                [u EXCEPT !.frame.pc = "string", !.frame.string = <<>>]
           [] c = "/" /\ Peek(u) \in {"/", "*"} ->
                [Eat(u) EXCEPT !.frame.pc =
                    IF Peek(u) = "/" THEN "line" ELSE "block",
                               !.frame.expect_end = FALSE]
           [] OTHER ->
                Return(u, Error(PointArea(u.current),
                                <<"unexpected ">> \o DebugChar(c)))

\* The reserved words without nil.
KeywordNoNil(symbol) ==
    CASE symbol = <<"t", "r", "u", "e">> -> <<"Boolean", <<TRUE>>>>
      [] symbol = <<"f", "a", "l", "s", "e">> -> <<"Boolean", <<FALSE>>>>
      [] OTHER -> <<"Symbol", SymbolNew(symbol)>>

\* The reserved words of the symbol scanner.
Keyword(symbol) ==
    CASE symbol = <<"t", "r", "u", "e">> -> <<"Boolean", <<TRUE>>>>
      [] symbol = <<"f", "a", "l", "s", "e">> -> <<"Boolean", <<FALSE>>>>
      [] symbol = <<"n", "i", "l">> -> <<"Nil", <<>>>>
      [] OTHER -> <<"Symbol", SymbolNew(symbol)>>

\* One iteration of the symbol loop, or its end and the keyword match.
StepSymbol(s) ==
    IF Peek(s) \in SymbolChars
    THEN [Eat(s) EXCEPT !.frame.text = Append(@, Peek(s))]
    ELSE Scanned(s, Keyword(s.frame.text)[1], Keyword(s.frame.text)[2])

\* One iteration of the number loop, or its end and f32::from_str.
StepNumber(s) ==
    IF Peek(s) \in NumberChars
    THEN [Eat(s) EXCEPT !.frame.text = Append(@, Peek(s))]
    ELSE IF FloatOk(s.frame.text)
         THEN Scanned(s, "Number", FloatValue(s.frame.text))
         ELSE Return(s, Error(LocationArea(s.frame.start, s.current),
                              <<"invalid number literal">>))

\* A string loop that keeps waiting for the closing quote at the end of the
\* input.
StepStringSpin(s) ==
    IF Peek(s) = None
    THEN s
    ELSE
      LET nch == Peek(s)
          t == Eat(s)
      IN IF nch = s.frame.ch THEN Scanned(t, "String", s.frame.string)
         ELSE IF nch = "\\"
              THEN [t EXCEPT !.frame.pc = "escape", !.frame.before = t.current]
              ELSE [t EXCEPT !.frame.string = Append(@, Ord(nch))]

\* A string loop that takes either quote character as the closing quote.
StepStringAnyQuote(s) ==
    IF Peek(s) = None
    THEN Return(Eat(s), Error(PointArea(Eat(s).current),
                              <<"unterminated string">>))
    ELSE
      LET nch == Peek(s)
          t == Eat(s)
      IN IF nch \in Quotes THEN Scanned(t, "String", s.frame.string)
         ELSE IF nch = "\\"
              THEN [t EXCEPT !.frame.pc = "escape", !.frame.before = t.current]
              ELSE [t EXCEPT !.frame.string = Append(@, Ord(nch))]

\* One iteration of the string loop: the closing quote, a backslash, a plain
\* character, or the end of the input.
StepString(s) ==
    IF Peek(s) = None
    THEN Return(Eat(s), Error(PointArea(Eat(s).current),
                              <<"unterminated string">>))
    ELSE
      LET nch == Peek(s)
          t == Eat(s)
      IN IF nch = s.frame.ch THEN Scanned(t, "String", s.frame.string)
         ELSE IF nch = "\\"
              THEN [t EXCEPT !.frame.pc = "escape", !.frame.before = t.current]
              ELSE [t EXCEPT !.frame.string = Append(@, Ord(nch))]

\* string.push(c) with the escape's character, back in the string loop.
Push(s, c) ==
    [s EXCEPT !.frame.pc = "string", !.frame.string = Append(@, c),
              !.frame.esc = None, !.frame.hex = <<>>]

\* The character after the backslash.
StepEscape(s) ==
    IF Peek(s) = None
    THEN Return(Eat(s), Error(PointArea(Eat(s).current),
                              <<"unexpected end whilst parsing escape">>))
    ELSE
      LET ech == Peek(s)
          t == Eat(s)
      IN CASE ech \in {"x", "u", "U"} ->
                [t EXCEPT !.frame.pc = "hex", !.frame.esc = ech,
                          !.frame.hex = <<>>]
           [] ech = "n" -> Push(t, 10)
           [] ech = "r" -> Push(t, 13)
           [] ech = "t" -> Push(t, 9)
           [] ech = "0" -> Push(t, 0)
           [] ech = "\\" -> Push(t, 92)
           [] OTHER ->
                Return(t, Error(LocationArea(s.frame.before, t.current),
                                DebugChar(ech) \o <<" is not a valid escape">>))

\* The n of eat_n(n) for the escape letter.
EscapeWidth(esc) ==
    CASE esc = "x" -> 2
      [] esc = "u" -> 4
      [] esc = "U" -> 8

\* The n characters are read: from_str_radix, then (for u and U)
\* char::from_u32; `octet as char` cannot fail.
Decode(s, hex) ==
    IF ~RadixOk(hex)
    THEN Return(s, Error(LocationArea(s.frame.before, s.current),
                         DebugStr(hex) \o <<" is invalid hex">>))
    ELSE IF s.frame.esc = "x" \/ IsChar(RadixValue(hex))
         THEN Push(s, RadixValue(hex))
         ELSE Return(s, Error(LocationArea(s.frame.before, s.current),
                              DisplayRadix(hex)
                                \o <<" is not a valid character">>))

\* eat_n whose failure is passed on with `?`: the end of the input inside
\* the escape's characters ends the iteration instead of returning an error.
StepHexEndsQuietly(s) ==
    IF Peek(s) = None
    THEN Return(Eat(s), EndOfInput)
    ELSE
      LET t == Eat(s)
          hex == Append(s.frame.hex, Peek(s))
      IN IF Len(hex) < EscapeWidth(s.frame.esc)
         THEN [t EXCEPT !.frame.hex = hex]
         ELSE Decode(t, hex)

\* One iteration of eat_n's loop; after the last one, the decoding.
StepHex(s) ==
    IF Peek(s) = None
    THEN Return(Eat(s), Error(PointArea(Eat(s).current),
                              <<"unexpected end whilst parsing escape">>))
    ELSE
      LET t == Eat(s)
          hex == Append(s.frame.hex, Peek(s))
      IN IF Len(hex) < EscapeWidth(s.frame.esc)
         THEN [t EXCEPT !.frame.hex = hex]
         ELSE Decode(t, hex)

\* A line comment that, like a block comment, must be closed: the end of the
\* input in it is an error.
StepLineUnterminated(s) ==
    IF Peek(s) = None
    THEN Return(Eat(s), Error(PointArea(Eat(s).current),
                              <<"unterminated comment">>))
    ELSE IF Peek(s) = "\n" THEN Recurse(Eat(s)) ELSE Eat(s)

\* One iteration of the line comment's loop.
StepLine(s) ==
    IF Peek(s) = None THEN Return(Eat(s), EndOfInput)
    ELSE IF Peek(s) = "\n" THEN Recurse(Eat(s)) ELSE Eat(s)

\* A block comment closed on the `*` of its `*/`: the `/` stays in the
\* source.
StepBlockLeavesSlash(s) ==
    IF Peek(s) = None
    THEN Return(Eat(s), Error(PointArea(Eat(s).current),
                              <<"unterminated comment">>))
    ELSE
      LET c == Peek(s)
          t == Eat(s)
      IN IF c = "*" THEN [t EXCEPT !.frame.expect_end = TRUE]
         ELSE IF c = "/" /\ s.frame.expect_end THEN Recurse(s)
         ELSE [t EXCEPT !.frame.expect_end = FALSE]

\* A block comment whose flag, once a `*` has set it, is never cleared: any
\* later `/` closes the comment.
StepBlockKeepsFlag(s) ==
    IF Peek(s) = None
    THEN Return(Eat(s), Error(PointArea(Eat(s).current),
                              <<"unterminated comment">>))
    ELSE
      LET c == Peek(s)
          t == Eat(s)
      IN IF c = "*" THEN [t EXCEPT !.frame.expect_end = TRUE]
         ELSE IF c = "/" /\ s.frame.expect_end THEN Recurse(t)
         ELSE t

\* One iteration of the block comment's loop.
StepBlock(s) ==
    IF Peek(s) = None
    THEN Return(Eat(s), Error(PointArea(Eat(s).current),
                              <<"unterminated comment">>))
    ELSE
      LET c == Peek(s)
          t == Eat(s)
      IN IF c = "*" THEN [t EXCEPT !.frame.expect_end = TRUE]
         ELSE IF c = "/" /\ s.frame.expect_end THEN Recurse(t)
         ELSE [t EXCEPT !.frame.expect_end = FALSE]

\* A token span that ends at the running location, one past the last
\* character consumed.
TokenAreaToLocation(s) == LocationArea(s.frame.start, s.location)

\* The span of the token being returned: from start to the last character
\* consumed.
TokenArea(s) == LocationArea(s.frame.start, s.current)

\* The delimiter check skipped for the closing kinds too.
UncheckedClosers ==
    {"LeftParen", "LeftBracket", "LeftBrace", "Dot",
     "RightParen", "RightBracket", "RightBrace"}

\* The delimiter check applied to Dot.
UncheckedNoDot == {"LeftParen", "LeftBracket", "LeftBrace"}

\* The kinds the delimiter check leaves alone.
Unchecked == {"LeftParen", "LeftBracket", "LeftBrace", "Dot"}

\* The delimiter check that reports the last character consumed instead of
\* the character it peeked at.
StepValidateAtCurrent(s) ==
    LET kind == s.frame.kind
        c == Peek(s)
        exempt == kind = "Symbol" /\ c = "."
    IN IF /\ kind \notin Unchecked
          /\ c # None
          /\ ~exempt
          /\ c \notin Whitespace
          /\ c \notin Closers
       THEN Return(s, Error(PointArea(s.current), <<"expected delimeter">>))
       ELSE Return(s, Token(kind, s.frame.value, TokenArea(s)))

\* A delimiter check that eats the character it rejects.
StepValidateEats(s) ==
    LET kind == s.frame.kind
        c == Peek(s)
        exempt == kind = "Symbol" /\ c = "."
    IN IF /\ kind \notin Unchecked
          /\ c # None
          /\ ~exempt
          /\ c \notin Whitespace
          /\ c \notin Closers
       THEN Return(Eat(s), Error(PointArea(s.location),
                                 <<"expected delimeter">>))
       ELSE Return(s, Token(kind, s.frame.value, TokenArea(s)))

\* The delimiter check on the character after the token, and the return.
StepValidate(s) ==
    LET kind == s.frame.kind
        c == Peek(s)
        exempt == kind = "Symbol" /\ c = "."
    IN IF /\ kind \notin Unchecked
          /\ c # None
          /\ ~exempt
          /\ c \notin Whitespace
          /\ c \notin Closers
       THEN Return(s, Error(PointArea(s.location), <<"expected delimeter">>))
       ELSE Return(s, Token(kind, s.frame.value, TokenArea(s)))

\* The step a running call takes next.
Step(s) ==
    CASE s.frame.pc = "skip" ->
            IF Peek(s) \in Whitespace THEN StepSkip(s) ELSE StepDispatch(s)
      [] s.frame.pc = "symbol" -> StepSymbol(s)
      [] s.frame.pc = "number" -> StepNumber(s)
      [] s.frame.pc = "string" -> StepString(s)
      [] s.frame.pc = "escape" -> StepEscape(s)
      [] s.frame.pc = "hex" -> StepHex(s)
      [] s.frame.pc = "line" -> StepLine(s)
      [] s.frame.pc = "block" -> StepBlock(s)
      [] s.frame.pc = "validate" -> StepValidate(s)

\* A whole call of next, from its entry to its return.
RECURSIVE Run(_)
Run(s) == IF s.frame.pc = "idle" THEN s ELSE Run(Step(s))

NextCall(s) == Run(StepCall(s))

\* The results of calling next on a fresh lexer over chars until the first
\* end-of-input.
RECURSIVE Drain(_)
Drain(s) ==
    IF s.results # <<>> /\ s.results[Len(s.results)].tag = "eof"
    THEN s.results
    ELSE Drain(NextCall(s))

Lex(chars) == Drain(New(chars))

---------------------------------------------------------------------------
(* Inputs *)

\* Longest input spelled character by character.
MaxLen == 3

\* Most words in an input put together from words.
MaxWords == 3

\* Most identifiers in a dotted chain.
MaxChain == 3

\* Calls the caller still makes once end-of-input has been returned.
MaxEofCalls == 2

\* All character sequences over alphabet of length at most n.
Strings(alphabet, n) == UNION {[1..k -> alphabet] : k \in 0..n}

RECURSIVE Concat(_)
Concat(words) ==
    IF words = <<>> THEN <<>> ELSE Head(words) \o Concat(Tail(words))

\* All inputs that are at most n of the words, one after the other.
Phrases(words, n) == {Concat(ws) : ws \in Strings(words, n)}

\* All chains of at most n + 1 of the identifiers, joined by single dots.
RECURSIVE Chains(_, _)
Chains(idents, n) ==
    IF n = 0 THEN idents
    ELSE idents \cup
         {c \o <<".">> \o i : c \in Chains(idents, n - 1), i \in idents}

\* Inputs of the spec's section 8 and others that reach every scanner.
Samples ==
    {<<" ", " ", "4", "2">>,
     <<"1", "2", "3", "a", "b", "c">>,
     <<"1", "2", "3", " ", "a", "b", "c">>,
     <<"f", "o", "o", ".", "b", "a", "r">>,
     <<"/", "/", " ", "c", "\n", "4", "2">>,
     <<"/", "*", " ", "a", " ", "*", "/", " ", "/", "*", "b", "*", "/", " ", "4", "2">>,
     <<"\"", "\\", "x", "4", "1", "\"">>,
     <<"'", "\\", "u", "0", "0", "4", "1", "'">>,
     <<"\"", "\\", "U", "0", "0", "0", "0", "0", "0", "4", "1", "\"">>,
     <<"\"", "\\", "n", "\"">>,
     <<"\"", "a", "b", "c">>,
     <<"/", "*", " ", "a", "b", "c">>,
     <<"\"", "f", "o", "o", "\"", "b", "a", "r">>,
     <<"T", "r", "u", "e">>,
     <<"n", "i", "l", "_">>,
     <<"t", "r", "u", "e", "x">>,
     <<"n", "i", "l", " ", "n", "i", "l", "_", " ", "f", "a", "l", "s", "e">>,
     <<"(", "n", "i", "l", " ", "t", "r", "u", "e", ")">>,
     <<"1", ".", "2", ".", "3", " ", "x">>,
     <<"1", "_", "0", ")">>,
     <<"1", "e", "(">>,
     <<"+", "a">>,
     <<"-", "1", ".", "5", "e", "2">>,
     <<"/", "*", "/", "*", "/", "1">>,
     <<"/", "*", "a", "*", "*", "/", "b">>,
     <<"/", "*", "/", "*", "*", "/", "*", "/">>,
     <<"/", "*", "*", "a", "/", "1", "*", "/">>,
     <<"\"", "\\", "x", "+", "1", "\"">>,
     <<"\"", "\\", "x", "g", "1", "\"">>,
     <<"'", "\\", "u", "+", "0", "4", "1", "'">>,
     <<"'", "\\", "x", "4", "'", "'">>,
     <<"\"", "a", "'", "\n", "\\", "x", "4", "1", "\\", "n", "\"">>,
     <<"'", "\"", "\\", "\\", "'", "a">>,
     <<"\"", "\\", "u", "0", "0">>,
     <<"'", "a", "\\", "U", "0", "0", "0", "0", "0", "0", "4">>,
     <<"\"", "\\", "x", "f", "F", "\"">>,
     <<"\"", "\\", "u", "d", "8", "0", "0", "\"">>,
     <<"\"", "\\", "u", "D", "F", "f", "f", "\"">>,
     <<"\"", "\\", "u", "e", "0", "0", "0", "\"">>,
     <<"\"", "\\", "U", "0", "0", "1", "1", "0", "0", "0", "0", "\"">>,
     <<"\"", "\\", "U", "0", "0", "1", "0", "f", "f", "f", "f", "\"">>,
     <<"\"", "\\", "U", "f", "f", "f", "f", "f", "f", "f", "f", "\"">>,
     <<"1", "e", "+", "5">>,
     <<"+", ".", "5", " ", "1", ".">>}

\* A mix of every character class.
Alphabet == {" ", "\n", "(", ")", ".", "a", "1", "\"", "\\", "/", "*"}

\* Tokens, separators and comments as units.
Words ==
    {<<" ">>, <<")">>, <<".">>,
     <<"t", "r", "u", "e">>, <<"f", "a", "l", "s", "e">>, <<"n", "i", "l">>,
     <<"a", "b">>, <<"1", "2">>, <<"\"", "a", "\"">>,
     <<"/", "*", "a", "*", "/">>, <<"/", "/", "a", "\n">>}

Idents == {<<"a">>, <<"b", "1">>, <<"_", "c">>}

Inputs ==
    Strings(Alphabet, MaxLen) \cup Phrases(Words, MaxWords)
        \cup Chains(Idents, MaxChain - 1) \cup Samples

\* Most words in an input of the comment study.
MaxCommentWords == 2

\* The characters of the comment study: everything a comment can come next
\* to, one character each where the lexer has it so.
CommentAlphabet == {" ", "\n", "(", ")", ".", "a", "1", "\"", "/", "*"}

\* The tokens, separators and comments that take more than a character or
\* two.
CommentWords ==
    {<<" ">>, <<"(">>, <<")">>, <<".">>, <<"/">>,
     <<"n", "i", "l">>, <<"a", "b">>, <<"\"", "a", "\"">>,
     <<"/", "*", "a", "*", "/">>, <<"/", "/", "a", "\n">>}

\* The inputs into which comments are inserted.
CommentInputs ==
    Strings(CommentAlphabet, MaxLen) \cup Phrases(CommentWords, MaxCommentWords)
        \cup Samples

---------------------------------------------------------------------------
(* The state machine *)

State ==
    [src |-> src, location |-> location, current |-> current,
     frame |-> frame, results |-> results]

Becomes(s) ==
    /\ src' = s.src
    /\ location' = s.location
    /\ current' = s.current
    /\ frame' = s.frame
    /\ results' = s.results
    /\ UNCHANGED input

InitOn(chars) ==
    /\ input \in chars
    /\ src = New(input).src
    /\ location = New(input).location
    /\ current = New(input).current
    /\ frame = New(input).frame
    /\ results = New(input).results

Init == InitOn(Inputs)

\* How many calls have returned end-of-input.
EofCalls == Cardinality({i \in 1..Len(results) : results[i].tag = "eof"})

CallNext ==
    /\ frame.pc = "idle"
    /\ EofCalls < MaxEofCalls
    /\ Becomes(StepCall(State))

SkipWhitespace ==
    /\ frame.pc = "skip"
    /\ Peek(State) \in Whitespace
    /\ Becomes(StepSkip(State))

Dispatch ==
    /\ frame.pc = "skip"
    /\ Peek(State) \notin Whitespace
    /\ Becomes(StepDispatch(State))

SymbolScanner == frame.pc = "symbol" /\ Becomes(StepSymbol(State))

NumberScanner == frame.pc = "number" /\ Becomes(StepNumber(State))

StringScanner == frame.pc = "string" /\ Becomes(StepString(State))

EscapeDecoder == frame.pc = "escape" /\ Becomes(StepEscape(State))

HexReader == frame.pc = "hex" /\ Becomes(StepHex(State))

LineComment == frame.pc = "line" /\ Becomes(StepLine(State))

BlockComment == frame.pc = "block" /\ Becomes(StepBlock(State))

DelimiterValidator == frame.pc = "validate" /\ Becomes(StepValidate(State))

\* The steps of a running call.
Running ==
    \/ SkipWhitespace
    \/ Dispatch
    \/ SymbolScanner
    \/ NumberScanner
    \/ StringScanner
    \/ EscapeDecoder
    \/ HexReader
    \/ LineComment
    \/ BlockComment
    \/ DelimiterValidator

Next == CallNext \/ Running

Spec == Init /\ [][Next]_vars

\* The lexer run over the inputs of the comment study.
CommentSpec == InitOn(CommentInputs) /\ [][Next]_vars

---------------------------------------------------------------------------
(* Vocabulary of the properties *)

\* How many characters of the input have been consumed.
Consumed == Len(input) - Len(src)

\* The position of the character of index n, counted on the input alone:
\* the newlines among the n characters before it, and the characters since
\* the last of them.
PointIn(chars, n) ==
    LET newlines == {i \in 1..n : chars[i] = "\n"}
        last == IF newlines = {} THEN 0
                ELSE CHOOSE i \in newlines : \A j \in newlines : j <= i
    IN LocationPoint(n, Cardinality(newlines), n - last)

\* The characters of the input that a span covers.
Covered(area) ==
    SubSeq(input, area.start.index + 1, area.end.index + 1)

TokenResults == {i \in 1..Len(results) : results[i].tag = "token"}

ErrorResults == {i \in 1..Len(results) : results[i].tag = "error"}

\* The last call has returned and no other has started.
Returned == frame.pc = "idle" /\ results # <<>>

LastResult == results[Len(results)]

---------------------------------------------------------------------------
(* C1 *)

\* C1: as long as no call has returned an error, the tokens returned so far
\* have strictly increasing start indices and each ends before the next
\* starts.
C1_TokensInOrder ==
    ErrorResults = {} =>
        \A i, j \in TokenResults :
            i < j =>
                /\ results[i].location.start.index
                       < results[j].location.start.index
                /\ results[i].location.end.index
                       < results[j].location.start.index

\* Three tokens and then end-of-input, with no error.
C1_Witness ==
    /\ ErrorResults = {}
    /\ Cardinality(TokenResults) >= 3
    /\ LastResult.tag = "eof"

---------------------------------------------------------------------------
(* C2 *)

\* The shape of the characters a token of the kind is made of.
Lexeme(kind, text) ==
    CASE kind = "LeftParen" -> text = <<"(">>
      [] kind = "RightParen" -> text = <<")">>
      [] kind = "LeftBracket" -> text = <<"[">>
      [] kind = "RightBracket" -> text = <<"]">>
      [] kind = "LeftBrace" -> text = <<"{">>
      [] kind = "RightBrace" -> text = <<"}">>
      [] kind = "Dot" -> text = <<".">>
      [] kind \in {"Symbol", "Boolean", "Nil"} ->
            /\ text[1] \in SymbolStart
            /\ \A k \in 1..Len(text) : text[k] \in SymbolChars
      [] kind = "Number" ->
            /\ text[1] \in NumberStart
            /\ \A k \in 2..Len(text) : text[k] \in NumberChars
      [] kind = "String" ->
            /\ Len(text) >= 2
            /\ text[1] \in Quotes
            /\ text[Len(text)] = text[1]

\* C2: the span of every token returned starts at the position of the
\* token's first character and ends at the position of the last character
\* consumed for it (the closing quote of a string), start.index <= end.index;
\* it holds no leading whitespace or comment, and when the token is
\* returned the character after the span, the look-ahead, is still
\* unconsumed.  On two spaces and 42 the Number spans index 2 to index 3.
C2_TokenSpan ==
    /\ \A i \in TokenResults :
          LET area == results[i].location
          IN /\ area.start.index <= area.end.index
             /\ area.end.index < Len(input)
             /\ area.start = PointIn(input, area.start.index)
             /\ area.end = PointIn(input, area.end.index)
             /\ Lexeme(results[i].kind, Covered(area))
    /\ (Returned /\ LastResult.tag = "token") =>
          /\ current = LastResult.location.end
          /\ Consumed = LastResult.location.end.index + 1
    /\ (input = <<" ", " ", "4", "2">> /\ results # <<>>) =>
          /\ results[1].tag = "token"
          /\ results[1].kind = "Number"
          /\ results[1].location.start.index = 2
          /\ results[1].location.end.index = 3

\* The Number of the input of two spaces and 42 has been returned.
C2_Witness ==
    /\ input = <<" ", " ", "4", "2">>
    /\ Returned
    /\ LastResult.kind = "Number"

---------------------------------------------------------------------------
(* C3 *)

\* C3: in every state, also inside strings and comments, the source is the
\* input without the characters consumed, the running location is the
\* position after them (index: their number; line: the newlines among them;
\* column: the characters since the last newline), and once a character has
\* been consumed the current position is the position of the last one,
\* whose index is one less than the running location's.
C3_LocationTracksConsumed ==
    /\ src = SubSeq(input, Consumed + 1, Len(input))
    /\ location = PointIn(input, Consumed)
    /\ Consumed >= 1 =>
          /\ current = PointIn(input, Consumed - 1)
          /\ current.index = location.index - 1

\* Inside a string, past a newline of it.
C3_Witness ==
    /\ frame.pc = "string"
    /\ location.line >= 1
    /\ location.column >= 1

---------------------------------------------------------------------------
(* C4 *)

\* The character at index n of the input, None past its end.
CharAt(n) == IF n < Len(input) THEN input[n + 1] ELSE None

\* The character c may follow a token of the kind.
Delimits(kind, c) ==
    \/ c = None
    \/ c \in Whitespace
    \/ c \in {")", "]", "}"}
    \/ kind = "Symbol" /\ c = "."

OpeningOrDot == {"LeftParen", "LeftBracket", "LeftBrace", "Dot"}

\* No token that the check covers has been returned before a character that
\* may not follow it.
DelimitedTokens ==
    \A i \in TokenResults :
        results[i].kind \notin OpeningOrDot =>
            Delimits(results[i].kind,
                     CharAt(results[i].location.end.index + 1))

\* The check is about to run on a token it covers and will reject the next
\* character.
AboutToReject ==
    /\ frame.pc = "validate"
    /\ frame.kind \notin OpeningOrDot
    /\ ~Delimits(frame.kind, CharAt(Consumed))

DelimiterExamples ==
    /\ (input = <<"1", "2", "3", "a", "b", "c">> /\ results # <<>>)
          => results[1].tag = "error"
    /\ (input = <<"\"", "f", "o", "o", "\"", "b", "a", "r">>
           /\ results # <<>>)
          => results[1].tag = "error"
    /\ (input = <<"1", "2", "3", " ", "a", "b", "c">> /\ Len(results) >= 2)
          => /\ results[1].tag = "token" /\ results[1].kind = "Number"
             /\ results[2].tag = "token" /\ results[2].kind = "Symbol"

\* C4: a call that has scanned a token other than an opening bracket or Dot
\* and finds next a character that is no whitespace and no closing bracket
\* (and not '.' after a Symbol) returns a syntax error instead of the token;
\* so no such token is ever returned before such a character.  123abc and
\* "foo"bar are rejected, 123 abc gives Number then Symbol.
C4_DelimiterRule ==
    /\ []DelimitedTokens
    /\ []DelimiterExamples
    /\ [][AboutToReject =>
            /\ frame'.pc = "idle"
            /\ Len(results') = Len(results) + 1
            /\ results'[Len(results')].tag = "error"]_vars

\* A closing bracket has been scanned, a letter follows it, and the call has
\* returned an error.
C4_Witness ==
    /\ Returned
    /\ LastResult.tag = "error"
    /\ Consumed >= 1
    /\ input[Consumed] \in Closers
    /\ CharAt(Consumed) \in SymbolStart
    /\ current.index = Consumed - 1

---------------------------------------------------------------------------
(* C5 *)

\* chars with piece inserted after its first p characters.
InsertAt(chars, p, piece) ==
    SubSeq(chars, 1, p) \o piece \o SubSeq(chars, p + 1, Len(chars))

\* Two sequences of results that agree on what a caller sees apart from the
\* locations: tokens by kind and value, errors by message, end-of-input.
SameResults(a, b) ==
    /\ Len(a) = Len(b)
    /\ \A k \in 1..Len(a) :
          /\ a[k].tag = b[k].tag
          /\ a[k].kind = b[k].kind
          /\ a[k].message = b[k].message
          /\ a[k].value = b[k].value

\* Complete block comments and newline-terminated line comments.
Comments ==
    {<<"/", "*", "*", "/">>, <<"/", "*", "a", " ", "*", "/">>,
     <<"/", "/", "\n">>, <<"/", "/", "a", "\n">>}

\* The errors of a string or block comment that the end of the input cuts
\* short: everything up to the end of the input is inside it.
CutShort ==
    {<<"unterminated string">>, <<"unterminated comment">>,
     <<"unexpected end whilst parsing escape">>}

\* The lexer's location is outside a string literal and outside a comment:
\* it is scanning neither, and the end of the input has cut neither short.
OutsideStringAndComment ==
    /\ frame.pc \notin {"string", "escape", "hex", "line", "block"}
    /\ \A k \in 1..Len(results) :
          ~(results[k].tag = "error" /\ results[k].message \in CutShort)

\* One whitespace character inserted at position p leaves the results that
\* the input has, base, unchanged.
WhitespaceLegal(base, p) ==
    \E w \in Whitespace : SameResults(Lex(InsertAt(input, p, <<w>>)), base)

\* Every comment inserted at position p leaves the results unchanged.
CommentsTransparent(base, p) ==
    \A c \in Comments : SameResults(Lex(InsertAt(input, p, c)), base)

\* Position p is right after a token that the delimiter check covers: a
\* literal, a symbol or a closing bracket.
AfterCheckedToken(base, p) ==
    \E k \in 1..Len(base) :
        /\ base[k].tag = "token"
        /\ base[k].kind \notin Unchecked
        /\ base[k].location.end.index = p - 1

\* Position p is right after a `/` that was reported as unexpected.
AfterLoneSlash(base, p) ==
    \E k \in 1..Len(base) :
        /\ base[k].tag = "error"
        /\ base[k].message = <<"unexpected ">> \o DebugChar("/")
        /\ base[k].location.end.index = p - 1

\* C5 as stated: wherever the lexer is outside a string and a comment and a
\* whitespace character could be inserted without changing the results, a
\* comment can be inserted without changing them, also directly after a
\* literal, a symbol or a closing bracket.
C5_Original ==
    LET base == Lex(input)
    IN (OutsideStringAndComment /\ WhitespaceLegal(base, location.index))
           => CommentsTransparent(base, location.index)

\* C5 (amended): wherever the lexer is outside a string and a comment, a
\* whitespace character could be inserted without changing the results, and
\* the position is neither directly after a literal, symbol or closing
\* bracket nor directly after a `/` reported as unexpected, a block comment
\* or a newline-terminated line comment can be inserted without changing
\* the results.
C5_CommentsTransparent ==
    LET base == Lex(input)
    IN (/\ OutsideStringAndComment
        /\ ~AfterCheckedToken(base, location.index)
        /\ ~AfterLoneSlash(base, location.index)
        /\ WhitespaceLegal(base, location.index))
           => CommentsTransparent(base, location.index)

\* The lexer stands right after an opening bracket and before another token,
\* where whitespace and comments are both legal.
C5_Witness ==
    /\ Returned
    /\ LastResult.tag = "token"
    /\ LastResult.kind = "LeftParen"
    /\ src # <<>>
    /\ WhitespaceLegal(Lex(input), location.index)
    /\ ~AfterCheckedToken(Lex(input), location.index)
    /\ CommentsTransparent(Lex(input), location.index)
    /\ \E k \in 1..Len(Lex(input)) :
          /\ Lex(input)[k].tag = "token"
          /\ Lex(input)[k].location.start.index = location.index

---------------------------------------------------------------------------
(* C6 *)

Reserved ==
    {<<"t", "r", "u", "e">>, <<"f", "a", "l", "s", "e">>, <<"n", "i", "l">>}

\* Where the identifiers and the dots of a chain start.
Dots(chars) == {k \in 1..Len(chars) : chars[k] = "."}

Starts(chars) == {1} \cup {k + 1 : k \in Dots(chars)}

\* The identifier of chars that starts at k: up to the next dot or the end.
IdentAt(chars, k) ==
    LET later == {d \in Dots(chars) : d > k}
        stop == IF later = {} THEN Len(chars)
                ELSE (CHOOSE d \in later : \A e \in later : d <= e) - 1
    IN SubSeq(chars, k, stop)

\* Non-reserved identifiers joined by single dots, nothing else.
IsChain(chars) ==
    /\ chars # <<>>
    /\ \A k \in 1..Len(chars) : chars[k] \in SymbolChars \cup {"."}
    /\ chars[Len(chars)] # "."
    /\ \A k \in Starts(chars) :
          /\ k <= Len(chars)
          /\ chars[k] \in SymbolStart
          /\ IdentAt(chars, k) \notin Reserved

\* The i-th smallest element of a set of numbers.
Nth(set, i) == CHOOSE p \in set : Cardinality({q \in set : q < p}) = i - 1

\* C6: on a chain of non-reserved identifiers joined by single dots the
\* calls return the identifiers as Symbols and the dots as Dots, in the
\* order of the input, then end-of-input, and never an error.
C6_DottedChain ==
    IsChain(input) =>
        LET places == Starts(input) \cup Dots(input)
        IN \A i \in 1..Len(results) :
              IF i > Cardinality(places) THEN results[i].tag = "eof"
              ELSE LET p == Nth(places, i)
                   IN /\ results[i].tag = "token"
                      /\ results[i].location.start.index = p - 1
                      /\ IF input[p] = "."
                         THEN results[i].kind = "Dot"
                         ELSE /\ results[i].kind = "Symbol"
                              /\ results[i].value = IdentAt(input, p)

\* A chain of three identifiers has been read to its end.
C6_Witness ==
    /\ IsChain(input)
    /\ Cardinality(Dots(input)) >= 2
    /\ Returned
    /\ LastResult.tag = "eof"
    /\ Len(results) = 6

---------------------------------------------------------------------------
(* C7 *)

Least(set) == CHOOSE p \in set : \A q \in set : p <= q

\* Whitespace and complete comments only: a line comment runs to a newline
\* or to the end, a block comment to the first */ after its opener.
RECURSIVE IsBlank(_)
IsBlank(chars) ==
    IF chars = <<>> THEN TRUE
    ELSE IF Head(chars) \in Whitespace THEN IsBlank(Tail(chars))
    ELSE IF Len(chars) >= 2 /\ chars[1] = "/" /\ chars[2] = "/"
    THEN LET ends == {k \in 3..Len(chars) : chars[k] = "\n"}
         IN ends = {} \/ IsBlank(Drop(chars, Least(ends)))
    ELSE IF Len(chars) >= 2 /\ chars[1] = "/" /\ chars[2] = "*"
    THEN LET ends == {k \in 3..(Len(chars) - 1) :
                        chars[k] = "*" /\ chars[k + 1] = "/"}
         IN ends # {} /\ IsBlank(Drop(chars, Least(ends) + 1))
    ELSE FALSE

\* C7: on an input of whitespace and complete comments only, the first call
\* returns end-of-input: no call returns a token or an error.
C7_BlankInput ==
    IsBlank(input) => \A i \in 1..Len(results) : results[i].tag = "eof"

\* A block comment, then a line comment that the end of the input ends,
\* and the first call has returned.
C7_Witness ==
    /\ IsBlank(input)
    /\ \E k \in 1..Len(input) : input[k] = "*"
    /\ \E k \in 2..Len(input) : input[k - 1] = "/" /\ input[k] = "/"
    /\ input[Len(input)] # "\n"
    /\ Returned

---------------------------------------------------------------------------
(* C8 *)

\* C8: a token that starts with a letter or underscore covers the maximal
\* run of digits, letters and underscores; it is Boolean(true),
\* Boolean(false) or Nil exactly when the run is true, false or nil, and
\* otherwise a Symbol carrying the run.  So no Symbol carries true, false or
\* nil, and True, nil_ and truex are Symbols.
C8_SymbolsAndKeywords ==
    /\ \A i \in TokenResults :
          LET r == results[i]
              text == Covered(r.location)
          IN /\ r.kind \in {"Symbol", "Boolean", "Nil"}
                  <=> text[1] \in SymbolStart
             /\ r.kind \in {"Symbol", "Boolean", "Nil"} =>
                  /\ \A k \in 1..Len(text) : text[k] \in SymbolChars
                  /\ CharAt(r.location.end.index + 1) \notin SymbolChars
                  /\ CASE text = <<"t", "r", "u", "e">> ->
                             r.kind = "Boolean" /\ r.value = <<TRUE>>
                        [] text = <<"f", "a", "l", "s", "e">> ->
                             r.kind = "Boolean" /\ r.value = <<FALSE>>
                        [] text = <<"n", "i", "l">> ->
                             r.kind = "Nil"
                        [] OTHER ->
                             r.kind = "Symbol" /\ r.value = text
    /\ (input \in {<<"T", "r", "u", "e">>, <<"n", "i", "l", "_">>,
                    <<"t", "r", "u", "e", "x">>} /\ results # <<>>)
          => results[1].tag = "token" /\ results[1].kind = "Symbol"

\* A reserved word has been returned as its literal, and after it a Symbol
\* that only starts with a reserved word.
C8_Witness ==
    \E i, j \in TokenResults :
        /\ i < j
        /\ results[i].kind \in {"Boolean", "Nil"}
        /\ results[j].kind = "Symbol"
        /\ Len(results[j].value) > 3
        /\ SubSeq(results[j].value, 1, 3) = <<"n", "i", "l">>

---------------------------------------------------------------------------
(* C10 *)

\* C10: once a call has returned end-of-input, no step moves the running
\* location or the current position, and every call that returns after it
\* returns end-of-input.
C10_EofAbsorbing ==
    [][(results # <<>> /\ LastResult.tag = "eof")
       => /\ location' = location
          /\ current' = current
          /\ (results' = results
                \/ /\ Len(results') = Len(results) + 1
                   /\ results'[Len(results')].tag = "eof")]_vars

\* After some characters, end-of-input has been returned twice.
C10_Witness ==
    /\ Consumed >= 1
    /\ Len(results) >= 3
    /\ results[Len(results) - 1].tag = "eof"
    /\ LastResult.tag = "eof"

---------------------------------------------------------------------------
(* C9 *)

\* A quote that no later character closes.
UnclosedString(chars) ==
    /\ chars # <<>>
    /\ chars[1] \in Quotes
    /\ \A k \in 2..Len(chars) : chars[k] # chars[1]

\* A block comment opener with no */ after it.
UnclosedComment(chars) ==
    /\ Len(chars) >= 2
    /\ chars[1] = "/"
    /\ chars[2] = "*"
    /\ \A k \in 3..(Len(chars) - 1) : ~(chars[k] = "*" /\ chars[k + 1] = "/")

\* The input without the whitespace it begins with.
RECURSIVE Trimmed(_)
Trimmed(chars) ==
    IF chars # <<>> /\ Head(chars) \in Whitespace
    THEN Trimmed(Tail(chars)) ELSE chars

\* The first call on an unclosed string or block comment has returned a
\* syntax error: unterminated comment for the comment; for the string,
\* unterminated string unless an escape in it was reported first.  When the
\* error is the unterminated one the whole input has been consumed.
UnclosedIsError ==
    /\ (UnclosedString(Trimmed(input)) /\ results # <<>>) =>
          /\ results[1].tag = "error"
          /\ results[1].kind = "SyntaxError"
          /\ ((\A k \in 1..Len(input) : input[k] # "\\") =>
                 results[1].message = <<"unterminated string">>)
          /\ (results[1].message = <<"unterminated string">> => src = <<>>)
    /\ (UnclosedComment(Trimmed(input)) /\ results # <<>>) =>
          /\ results[1].tag = "error"
          /\ results[1].kind = "SyntaxError"
          /\ results[1].message = <<"unterminated comment">>
          /\ src = <<>>

\* A measure of the work a running call has left: the characters not yet
\* consumed, and whether the scanning and the delimiter check are still
\* to come.
Rank ==
    3 * Len(src) + (CASE frame.pc = "idle" -> 0
                      [] frame.pc = "validate" -> 1
                      [] OTHER -> 2)

\* A running call has a step to take, and the step changes the state.
CallProgresses == frame.pc # "idle" => Step(State) # State

\* Every step of a running call lowers the measure, which is never negative.
StepLowersRank == frame.pc # "idle" => (Rank' < Rank /\ Rank' >= 0)

\* A step adds a result exactly when it ends the running call, and then it
\* adds exactly one: a token, an error or end-of-input.
OneResultPerCall ==
    /\ (frame.pc # "idle" /\ frame'.pc = "idle") <=> results' # results
    /\ results' # results =>
          /\ Len(results') = Len(results) + 1
          /\ SubSeq(results', 1, Len(results)) = results
          /\ results'[Len(results')].tag \in {"token", "error", "eof"}

\* C9: every call of next terminates (a running call always has a step that
\* changes the state, and each step lowers a natural-number measure, so the
\* call takes finitely many steps) and returns exactly one of a token, a
\* syntax error or end-of-input; a call on an input that ends in an unclosed
\* string or block comment returns a syntax error.
C9_CallsReturn ==
    /\ []CallProgresses
    /\ [][StepLowersRank]_vars
    /\ [][OneResultPerCall]_vars
    /\ []UnclosedIsError

\* The call on an unclosed string of three characters or more has returned.
C9_Witness ==
    /\ UnclosedString(input)
    /\ Len(input) >= 3
    /\ Returned
    /\ Len(results) = 1

---------------------------------------------------------------------------
(* C11 *)

\* The error of the delimiter check.
IsDelimiterError(r) ==
    r.tag = "error" /\ r.message = <<"expected delimeter">>

\* The span of error r lies wholly in the consumed part of the input.
SpanConsumed(r) == r.location.end.index < location.index

\* No result after the i-th starts at or before the end of the i-th's span.
NotReRead(i) ==
    \A j \in (i + 1)..Len(results) :
        results[j].tag # "eof" =>
            results[j].location.start.index > results[i].location.end.index

---------------------------------------------------------------------------
(* C12 *)

\* The step is the delimiter check returning an error.
ValidatorRejects ==
    /\ frame.pc = "validate"
    /\ Len(results') = Len(results) + 1
    /\ results'[Len(results')].tag = "error"

\* C12: the error with which the delimiter check rejects the character after
\* a token has the message text "expected delimiter".
C12_DelimiterMessage ==
    [][ValidatorRejects =>
          results'[Len(results')].message = <<"expected delimiter">>]_vars

---------------------------------------------------------------------------
(* C13 *)

\* Where the block comment opened by the `/` that is the o-th character of
\* chars ends: the first `/` right after a `*` that is not the opener's own;
\* 0 when there is none.
CloseOf(chars, o) ==
    LET ends == {k \in (o + 3)..Len(chars) :
                    chars[k] = "/" /\ chars[k - 1] = "*"}
    IN IF ends = {} THEN 0 ELSE Least(ends)

\* A step inside a block comment leaves the comment exactly when it consumes
\* the `/` at which the comment ends; when there is none the comment is left
\* only at the end of the input, with the unterminated comment error.
BlockEndsAtFirstClose ==
    frame.pc = "block" =>
        LET close == CloseOf(input, frame.start.index + 1)
        IN /\ frame'.pc \in {"block", "skip", "idle"}
           /\ frame'.pc = "skip" <=> (close # 0 /\ Consumed' = close)
           /\ frame'.pc = "idle" =>
                 /\ close = 0
                 /\ src = <<>>
                 /\ results' =
                       Append(results, Error(PointArea(current),
                                             <<"unterminated comment">>))

\* The comment of `/*/` is not closed; `/*a**/` is a whole comment; the
\* comment of `/*/**/*/` ends at its first `*/`.
BlockExamples ==
    /\ Lex(<<"/", "*", "/">>)[1].message = <<"unterminated comment">>
    /\ Len(Lex(<<"/", "*", "a", "*", "*", "/">>)) = 1
    /\ Lex(<<"/", "*", "/", "*", "*", "/", "*", "/">>)[1].message
           = <<"unexpected ">> \o DebugChar("*")

---------------------------------------------------------------------------
(* C14 *)

\* C14: while a call of next is running there is one activation of next,
\* however many comments the call has skipped.
C14_DepthStaysOne == frame.pc # "idle" => frame.depth = 1

---------------------------------------------------------------------------
(* C15 *)

\* The characters of the escape once the step in progress has read the last
\* of them.
HexRead == Append(frame.hex, Peek(State))

\* The step reads the last of the 2, 4 or 8 characters of a hex escape.
ReadsLastHex ==
    /\ frame.pc = "hex"
    /\ src # <<>>
    /\ Len(HexRead) = EscapeWidth(frame.esc)

\* C15: a \x, \u or \U escape reads exactly 2, 4 or 8 characters after the
\* letter; when one of them is not a hexadecimal digit the call returns the
\* error "<hex> is invalid hex", and the escape is accepted only when all of
\* them are hexadecimal digits.
C15_HexEscapes ==
    [][ReadsLastHex =>
          /\ Consumed' = frame.before.index + 2 + EscapeWidth(frame.esc)
          /\ (\E i \in 1..Len(HexRead) : HexRead[i] \notin HexDigits) =>
                /\ frame'.pc = "idle"
                /\ results'[Len(results')].tag = "error"
                /\ results'[Len(results')].message
                       = DebugStr(HexRead) \o <<" is invalid hex">>
          /\ frame'.pc = "string" =>
                \A i \in 1..Len(HexRead) : HexRead[i] \in HexDigits]_vars

---------------------------------------------------------------------------
(* C16 *)

\* The escape whose backslash is the k-th character of chars, read off the
\* text: how many characters it takes and the code point it stands for.
EscapeAt(chars, k) ==
    IF k + 1 > Len(chars) THEN [ok |-> FALSE, len |-> 0, value |-> 0]
    ELSE
      LET letter == chars[k + 1]
          n == EscapeWidth(letter)
          digits == SubSeq(chars, k + 2, k + 1 + n)
      IN CASE letter \in {"x", "u", "U"} ->
                [ok |-> /\ k + 1 + n <= Len(chars)
                        /\ RadixOk(digits)
                        /\ (letter = "x" \/ IsChar(RadixValue(digits))),
                 len |-> 2 + n, value |-> RadixValue(digits)]
           [] letter = "n" -> [ok |-> TRUE, len |-> 2, value |-> 10]
           [] letter = "r" -> [ok |-> TRUE, len |-> 2, value |-> 13]
           [] letter = "t" -> [ok |-> TRUE, len |-> 2, value |-> 9]
           [] letter = "0" -> [ok |-> TRUE, len |-> 2, value |-> 0]
           [] letter = "\\" -> [ok |-> TRUE, len |-> 2, value |-> 92]
           [] OTHER -> [ok |-> FALSE, len |-> 0, value |-> 0]

\* The string literal read off the text from its k-th character on, the
\* opening quote q being before it: where the closing quote is, and the
\* plain characters and decoded escapes before it, collected in acc.
RECURSIVE StringFrom(_, _, _, _)
StringFrom(chars, k, q, acc) ==
    IF k > Len(chars) THEN [ok |-> FALSE, end |-> 0, value |-> acc]
    ELSE IF chars[k] = q THEN [ok |-> TRUE, end |-> k, value |-> acc]
    ELSE IF chars[k] = "\\"
         THEN IF EscapeAt(chars, k).ok
              THEN StringFrom(chars, k + EscapeAt(chars, k).len, q,
                              Append(acc, EscapeAt(chars, k).value))
              ELSE [ok |-> FALSE, end |-> 0, value |-> acc]
         ELSE StringFrom(chars, k + 1, q, Append(acc, Ord(chars[k])))

\* The literal that the text has at the span of result r.
LiteralAt(r) ==
    StringFrom(input, r.location.start.index + 2,
               input[r.location.start.index + 1], <<>>)

\* C16: a String token begins at a quote character and ends at the first
\* later occurrence of the same character that is not part of a backslash
\* escape; its value is the plain characters (the other quote and raw
\* newlines among them) and the decoded escapes between the two, in order.
C16_StringValue ==
    \A i \in TokenResults :
        results[i].kind = "String" =>
            /\ input[results[i].location.start.index + 1] \in Quotes
            /\ LiteralAt(results[i]).ok
            /\ LiteralAt(results[i]).end = results[i].location.end.index + 1
            /\ LiteralAt(results[i]).value = results[i].value

\* A String token with the other quote, a raw newline and two escapes in it
\* has been returned.
C16_Witness ==
    /\ Returned
    /\ LastResult.tag = "token"
    /\ LastResult.kind = "String"
    /\ LastResult.value = <<97, 39, 10, 65, 10>>

---------------------------------------------------------------------------
(* C17 *)

\* The errors of a string literal that the end of the input cuts short.
UnterminatedString == <<"unterminated string">>

UnexpectedEnd == <<"unexpected end whilst parsing escape">>

\* A step of the string scanner at the end of the input returns the error
\* for the place it is in: unterminated string where a plain character or
\* the closing quote is due, unexpected end whilst parsing escape after the
\* backslash and among the characters of a \x, \u or \U escape.
StringCutShort ==
    (frame.pc \in {"string", "escape", "hex"} /\ src = <<>>) =>
        /\ frame'.pc = "idle"
        /\ Len(results') = Len(results) + 1
        /\ results'[Len(results')].tag = "error"
        /\ results'[Len(results')].message =
               IF frame.pc = "string" THEN UnterminatedString
               ELSE UnexpectedEnd

\* Such an error is returned with the whole input consumed, and every call
\* after it has returned end-of-input.
NothingAfterCutShort ==
    \A i \in ErrorResults :
        results[i].message \in {UnterminatedString, UnexpectedEnd} =>
            /\ src = <<>>
            /\ \A j \in (i + 1)..Len(results) : results[j].tag = "eof"

\* C17: in a string literal the end of the input where a plain character or
\* the closing quote is due returns unterminated string, and the end of the
\* input right after a backslash or before all characters of a \x, \u or \U
\* escape returns unexpected end whilst parsing escape; either way the whole
\* input has been consumed and the next call returns end-of-input.
C17_StringEndOfInput ==
    /\ [][StringCutShort]_vars
    /\ []NothingAfterCutShort

\* The input ended among the characters of a \u or \U escape; the error and
\* then end-of-input have been returned.
C17_Witness ==
    /\ Returned
    /\ Len(results) >= 2
    /\ results[Len(results) - 1].tag = "error"
    /\ results[Len(results) - 1].message = UnexpectedEnd
    /\ LastResult.tag = "eof"
    /\ \E k \in 1..(Len(input) - 2) :
          /\ input[k] = "\\"
          /\ input[k + 1] \in {"u", "U"}
          /\ Len(input) >= k + 3

---------------------------------------------------------------------------
(* C18 *)

\* The number that hexadecimal digits spell, last digit first; numbers above
\* the last code point are all reported as CharLimit.
RECURSIVE HexNumber(_)
HexNumber(digits) ==
    IF digits = <<>> THEN 0
    ELSE LET v == HexVal(digits[Len(digits)])
                    + 16 * HexNumber(SubSeq(digits, 1, Len(digits) - 1))
         IN IF v > CharLimit THEN CharLimit ELSE v

\* 0..0xD7FF or 0xE000..0x10FFFF.
IsScalarValue(v) ==
    (0 <= v /\ v <= 55295) \/ (57344 <= v /\ v <= 1114111)

\* The decimal digits of n.
RECURSIVE Decimal(_)
Decimal(n) ==
    IF n < 10 THEN <<Printable[17 + n]>>
    ELSE Append(Decimal(n \div 10), Printable[17 + (n % 10)])

\* The step reads the last character of an escape whose characters are all
\* hexadecimal digits: \x appends the character of that value, \u and \U
\* append it when the value is a scalar value and return the error
\* "<value> is not a valid character" otherwise, the value in decimal.
HexDecoded ==
    (ReadsLastHex /\ \A i \in 1..Len(HexRead) : HexRead[i] \in HexDigits) =>
        IF frame.esc = "x" \/ IsScalarValue(HexNumber(HexRead))
        THEN /\ frame'.pc = "string"
             /\ frame'.string = Append(frame.string, HexNumber(HexRead))
             /\ results' = results
        ELSE /\ frame'.pc = "idle"
             /\ results'[Len(results')].tag = "error"
             /\ results'[Len(results')].message =
                    (IF HexNumber(HexRead) < CharLimit
                     THEN Decimal(HexNumber(HexRead))
                     ELSE DisplayRadix(HexRead))
                        \o <<" is not a valid character">>

\* The escapes x41, u0041 and U00000041 all decode to A.
HexExamples ==
    /\ Lex(<<"\"", "\\", "x", "4", "1", "\"">>)[1].value = <<65>>
    /\ Lex(<<"\"", "\\", "u", "0", "0", "4", "1", "\"">>)[1].value = <<65>>
    /\ Lex(<<"\"", "\\", "U", "0", "0", "0", "0", "0", "0", "4", "1",
             "\"">>)[1].value = <<65>>

\* C18: with hexadecimal digits, \u and \U append the character whose code
\* point is the value when it is a Unicode scalar value, and otherwise (a
\* surrogate, or a value above 0x10FFFF) return the error "<value> is not a
\* valid character"; \x always appends the character of the byte's value.
C18_EscapeValue ==
    /\ [][HexDecoded]_vars
    /\ []HexExamples

\* A \u escape that spells a surrogate has been rejected.
C18_Witness ==
    /\ Returned
    /\ LastResult.tag = "error"
    /\ LastResult.message
           = <<"5", "5", "2", "9", "6", " is not a valid character">>

---------------------------------------------------------------------------
(* C19 *)

\* digit, '_', '.', 'E', 'e'
RunChars ==
    {"0", "1", "2", "3", "4", "5", "6", "7", "8", "9", "_", ".", "E", "e"}

\* The last character of the number run whose first character is the o-th
\* of chars: the characters after the first are taken as long as they are
\* run characters.
RECURSIVE RunEnd(_, _)
RunEnd(chars, o) ==
    IF o + 1 <= Len(chars) /\ chars[o + 1] \in RunChars
    THEN RunEnd(chars, o + 1) ELSE o

InvalidNumber == <<"invalid number literal">>

\* Result r is what the number scanner returns.
IsNumberResult(r) ==
    \/ r.tag = "token" /\ r.kind = "Number"
    \/ r.tag = "error" /\ r.message = InvalidNumber

\* A result of the number scanner spans a sign or digit and the whole run
\* after it, and is the error exactly when that text is no number.
NumberSpansRun ==
    \A i \in 1..Len(results) :
        IsNumberResult(results[i]) =>
            /\ input[results[i].location.start.index + 1]
                   \in {"+", "-"} \cup Digits
            /\ results[i].location.end.index + 1
                   = RunEnd(input, results[i].location.start.index + 1)
            /\ results[i].tag = "error"
                   <=> ~FloatOk(Covered(results[i].location))

\* When the error is returned the run has been consumed and nothing after
\* it.
RunConsumedOnly ==
    (Returned /\ LastResult.tag = "error"
              /\ LastResult.message = InvalidNumber) =>
        /\ Consumed = LastResult.location.end.index + 1
        /\ location.index = LastResult.location.end.index + 1

\* A lone sign, an underscore, two dots and an exponent letter without
\* digits are no numbers; the character after the run is lexed by the next
\* call.
NumberExamples ==
    /\ Lex(<<"+">>)[1].message = InvalidNumber
    /\ Lex(<<"-", "a">>)[1].message = InvalidNumber
    /\ Lex(<<"1", "_", "0">>)[1].message = InvalidNumber
    /\ Lex(<<"1", ".", "2", ".", "3">>)[1].message = InvalidNumber
    /\ Lex(<<"1", "e">>)[1].message = InvalidNumber
    /\ Lex(<<"1", "E", "(">>)[1].message = InvalidNumber
    /\ Lex(<<"1", "E", "(">>)[2].kind = "LeftParen"
    /\ Lex(<<"1", "e", "5">>)[1].kind = "Number"

\* C19: the number scanner consumes a sign or digit and then the longest
\* run of digits, '_', '.', 'E' and 'e', nothing else; when that text is no
\* number the call returns the error invalid number literal spanning the run
\* from its first to its last character, and the character after the run
\* is not consumed.
C19_NumberRun == NumberSpansRun /\ RunConsumedOnly /\ NumberExamples

\* The error for a run of several characters has been returned with a
\* character after the run still in the source.
C19_Witness ==
    /\ Returned
    /\ LastResult.tag = "error"
    /\ LastResult.message = InvalidNumber
    /\ LastResult.location.start.index < LastResult.location.end.index
    /\ src # <<>>

---------------------------------------------------------------------------
(* C20 *)

\* The results that are tokens or errors.
Yielded == TokenResults \cup ErrorResults

\* Between two calls: the call that comes next, if it returns a token or an
\* error, leaves the running location further on than it found it, and if
\* it returns end-of-input the source is exhausted.
CallConsumes ==
    frame.pc = "idle" =>
        LET after == NextCall(State)
        IN IF after.results[Len(after.results)].tag = "eof"
           THEN after.src = <<>>
           ELSE after.location.index > location.index

\* The delimiter check consumes nothing.
LookAheadKeeps ==
    frame.pc = "validate" => (src' = src /\ location' = location)

\* No more tokens and errors than characters consumed; and between two
\* calls, calling on reaches end-of-input within one call per character
\* left and one more.
CallsBounded ==
    /\ Cardinality(Yielded) <= Consumed
    /\ Consumed <= Len(input)
    /\ frame.pc = "idle" =>
          /\ Drain(State)[Len(Drain(State))].tag = "eof"
          /\ Len(Drain(State)) <= Len(results) + Len(src) + 1

\* C20: every call that returns a token or an error has moved the running
\* location on by at least one character, and the delimiter check consumes
\* nothing; for an input of n characters at most n calls return a token or
\* an error, and calling on, also after errors, reaches end-of-input.
C20_CallsProgress ==
    /\ []CallConsumes
    /\ [][LookAheadKeeps]_vars
    /\ []CallsBounded

\* Every character of the input has given a result of its own, an error
\* among them, and end-of-input has been returned after them.
C20_Witness ==
    /\ Returned
    /\ LastResult.tag = "eof"
    /\ ErrorResults # {}
    /\ TokenResults # {}
    /\ Len(input) >= 3
    /\ Cardinality(Yielded) = Len(input)

====
